---- MODULE Spec2Model ----
(***************************************************************************)
(* A model of src/src/resulta.ts: the Result record, its constructors,     *)
(* predicates, combinators and extractors.  A client builds one Result,    *)
(* passes it through a chain of combinators and ends with an extractor or  *)
(* a match; every call is recorded with the callbacks it invoked.          *)
(***************************************************************************)
EXTENDS Integers, Sequences, FiniteSets, TLC

VARIABLES pc, cur, trace, nextId, args

vars == <<pc, cur, trace, nextId, args>>

(***************************************************************************)
(* Bounds of the model.                                                    *)
(***************************************************************************)
\* the longest chain of combinators applied to one Result
MaxSteps == 3
\* the longest array handed to combine
MaxLen == 3

(***************************************************************************)
(* JavaScript values.  kind is the type (or, for error objects, the        *)
(* class); n is the number, the boolean (0/1) or, for objects, the         *)
(* identity; s is the string or the error's message; items the elements    *)
(* of an array.                                                            *)
(***************************************************************************)
V(kind, n, s) == [kind |-> kind, n |-> n, s |-> s, items |-> <<>>]

Undefined == V("undefined", 0, "")
Null == V("null", 0, "")
False == V("boolean", 0, "")
Num(n) == V("number", n, "")
Str(s) == V("string", 0, s)
Arr(items) == [kind |-> "array", n |-> 0, s |-> "", items |-> items]
True == V("boolean", 1, "")
\* NaN is a number that is no number: s tells it from 0
NaN == V("number", 0, "NaN")

\* the message of the error valueExn throws
AccessMsg == "Tried to access result value that is not ok"

\* error objects of the client: identity, class and message
Boom == V("Error", 1, "boom")
Even == V("CustomError", 2, "even")
Same == V("Error", 3, AccessMsg)

ErrorKinds == {"Error", "CustomError", "ResultAccessErr"}
Errors == {Boom, Even, Same}
Plain == {Undefined, Null, False, Num(0), Num(1), Str("")}
Values == Plain \cup Errors

\* what result() is called with: the values above (undefined is also the
\* call with no argument) and more truthy and falsy ones
ResultArgs == Values \cup {True, Str("a"), Arr(<<>>), NaN}

\* `value instanceof Error`
InstanceOfError(v) == v.kind \in ErrorKinds

\* JavaScript truthiness, the `value &&` of result()
Truthy(v) ==
    /\ v.kind \notin {"undefined", "null"}
    /\ ~(v.kind \in {"number", "boolean"} /\ v.n = 0)
    /\ ~(v.kind = "number" /\ v.s = "NaN")
    /\ ~(v.kind = "string" /\ v.s = "")

\* null or undefined
Nullish(v) == v.kind \in {"undefined", "null"}

(***************************************************************************)
(* The Result record.                                                      *)
(***************************************************************************)
ResultStatus == [ok |-> 1, err |-> 2]

\* no Result (a call that has not returned one)
NoResult == [value |-> Undefined, status |-> 0, err |-> Undefined]

ok(t) == [value |-> t, status |-> ResultStatus.ok, err |-> Null]

\* a faulty err: the error is stored in both fields
err_bothFields(e) == [value |-> e, status |-> ResultStatus.err, err |-> e]

err(e) == [value |-> Null, status |-> ResultStatus.err, err |-> e]

isOk(r) == r.status = ResultStatus.ok

\* a faulty isErr: it looks at the payload instead of the status
isErr_payload(r) == r.err # Null

isErr(r) == r.status = ResultStatus.err

\* a faulty result: the value is tested against null and undefined only
result_nullish(value) ==
    LET isError == InstanceOfError(value)
    IN  IF ~Nullish(value) /\ ~isError THEN ok(value) ELSE err(value)

result(value) ==
    LET isError == InstanceOfError(value)
    IN  IF Truthy(value) /\ ~isError THEN ok(value) ELSE err(value)

(***************************************************************************)
(* Callbacks.  A callback is the name of the parameter it is passed as,    *)
(* the step of the chain it is passed to, and what it does when it is      *)
(* invoked: it throws out.v, or returns the value out.v (the Result out.r  *)
(* for andThen's callback).                                                *)
(***************************************************************************)
Outcome(throws, v, r) == [throws |-> throws, v |-> v, r |-> r]

Callback(fn, step, out) == [fn |-> fn, step |-> step, out |-> out]

\* one invocation of a callback with one argument
Call(cb, arg) ==
    [calls |-> <<[fn |-> cb.fn, step |-> cb.step, arg |-> arg]>>,
     throws |-> cb.out.throws, v |-> cb.out.v, r |-> cb.out.r]

(***************************************************************************)
(* How a call of the library ends: it returns a Result (res) or a plain    *)
(* value (val), or it throws exn; calls are the callback invocations it    *)
(* made, in order.                                                         *)
(***************************************************************************)
Returns(res, calls) ==
    [raised |-> FALSE, awaiting |-> FALSE, exn |-> Undefined, res |-> res,
     val |-> Undefined, calls |-> calls, examined |-> 0]

ReturnsValue(val, calls) ==
    [raised |-> FALSE, awaiting |-> FALSE, exn |-> Undefined, res |-> NoResult,
     val |-> val, calls |-> calls, examined |-> 0]

Throws(exn, calls) ==
    [raised |-> TRUE, awaiting |-> FALSE, exn |-> exn, res |-> NoResult,
     val |-> Undefined, calls |-> calls, examined |-> 0]

\* an async call suspended at its await
Awaits(calls) ==
    [raised |-> FALSE, awaiting |-> TRUE, exn |-> Undefined, res |-> NoResult,
     val |-> Undefined, calls |-> calls, examined |-> 0]

(***************************************************************************)
(* Constructors from fallible computations.                                *)
(***************************************************************************)
\* a faulty ofPromise: thunk() is called outside the try block
ofPromiseEnter_unguarded(thunk) ==
    LET c == Call(thunk, Undefined)
    IN  IF c.throws THEN Throws(c.v, c.calls) ELSE Awaits(c.calls)

\* ofPromise up to its await: thunk() is called inside the try block
ofPromiseEnter(thunk) ==
    LET c == Call(thunk, Undefined)
    IN  IF c.throws THEN Returns(err(c.v), c.calls) ELSE Awaits(c.calls)

\* ofPromise from its await on: the promise was fulfilled with settle.v or
\* rejected with settle.v; calls are the invocations made before the await
ofPromiseResume(settle, calls) ==
    IF settle.throws THEN Returns(err(settle.v), calls)
    ELSE Returns(ok(settle.v), calls)

ofThrowable(throwable) ==
    LET c == Call(throwable, Undefined)
    IN  IF c.throws THEN Returns(err(c.v), c.calls)
        ELSE Returns(ok(c.v), c.calls)

(***************************************************************************)
(* Combinators.                                                            *)
(***************************************************************************)
\* a faulty andThen: tx is called before the status is looked at
andThen_eager(r, tx) ==
    LET c == Call(tx, r.value)
    IN  IF c.throws THEN Throws(c.v, c.calls)
        ELSE IF isOk(r) THEN Returns(c.r, c.calls)
        ELSE Returns(r, c.calls)

andThen(r, tx) ==
    IF isOk(r)
    THEN LET c == Call(tx, r.value)
         IN  IF c.throws THEN Throws(c.v, c.calls) ELSE Returns(c.r, c.calls)
    ELSE Returns(r, <<>>)

\* a faulty map: an Err is rebuilt around a copy of its error
map_copy(r, tx) ==
    IF isOk(r)
    THEN LET c == Call(tx, r.value)
         IN  IF c.throws THEN Throws(c.v, c.calls)
             ELSE Returns(ok(c.v), c.calls)
    ELSE Returns(err(V(r.err.kind, r.err.n + 100, r.err.s)), <<>>)

\* a faulty map: what tx throws is caught and returned as an Err
map_catch(r, tx) ==
    IF isOk(r)
    THEN LET c == Call(tx, r.value)
         IN  IF c.throws THEN Returns(err(c.v), c.calls)
             ELSE Returns(ok(c.v), c.calls)
    ELSE Returns(r, <<>>)

map(r, tx) ==
    IF isOk(r)
    THEN LET c == Call(tx, r.value)
         IN  IF c.throws THEN Throws(c.v, c.calls)
             ELSE Returns(ok(c.v), c.calls)
    ELSE Returns(r, <<>>)

\* a faulty mapErr: tx is called on an Ok too
mapErr_always(r, tx) ==
    LET c == Call(tx, r.err)
    IN  IF isOk(r) THEN Returns(r, c.calls)
        ELSE IF c.throws THEN Throws(c.v, c.calls)
        ELSE Returns(err(c.v), c.calls)

mapErr(r, tx) ==
    IF isOk(r) THEN Returns(r, <<>>)
    ELSE LET c == Call(tx, r.err)
         IN  IF c.throws THEN Throws(c.v, c.calls)
             ELSE Returns(err(c.v), c.calls)

(***************************************************************************)
(* Extractors.                                                             *)
(***************************************************************************)
valueOr(r, fallback) ==
    IF isOk(r) THEN ReturnsValue(r.value, <<>>)
    ELSE ReturnsValue(fallback, <<>>)

\* new ResultAccessErr(message): a new object, whose identity is id
ResultAccessErr(id, message) == V("ResultAccessErr", id, message)

\* a faulty valueExn: the wrapped error is thrown
valueExn_rethrow(r, id) ==
    IF isOk(r) THEN ReturnsValue(r.value, <<>>) ELSE Throws(r.err, <<>>)

\* id is the identity the object allocated by `new` gets
valueExn(r, id) ==
    IF isOk(r) THEN ReturnsValue(r.value, <<>>)
    ELSE Throws(ResultAccessErr(id, AccessMsg), <<>>)

(***************************************************************************)
(* combine: the for-of loop, k the element the iteration is at (from 1),   *)
(* i the index the next value is stored at (from 0); examined counts the   *)
(* elements the loop has read.                                             *)
(***************************************************************************)
RECURSIVE combineLoop(_, _, _, _)
combineLoop(results, k, values, i) ==
    IF k > Len(results)
    THEN [Returns(ok(Arr(values)), <<>>) EXCEPT !.examined = k - 1]
    ELSE IF isOk(results[k])
         THEN combineLoop(results, k + 1,
                          [values EXCEPT ![i + 1] = results[k].value], i + 1)
         ELSE [Returns(results[k], <<>>) EXCEPT !.examined = k]

\* a faulty combine: the whole array is read and the last Err returned
combine_lastErr(results) ==
    LET errs == {k \in 1..Len(results) : ~isOk(results[k])}
    IN  IF errs = {}
        THEN combineLoop(results, 1, [j \in 1..Len(results) |-> Null], 0)
        ELSE [Returns(results[CHOOSE k \in errs : \A j \in errs : j <= k],
                      <<>>) EXCEPT !.examined = Len(results)]

combine(results) ==
    combineLoop(results, 1, [j \in 1..Len(results) |-> Null], 0)

\* a faulty match: both handlers are called and one result is picked
match_both(r, cases) ==
    LET o == Call(cases.Ok, r.value)
        e == Call(cases.Err, r.err)
        c == IF isOk(r) THEN o ELSE e
    IN  IF c.throws THEN Throws(c.v, o.calls \o e.calls)
        ELSE ReturnsValue(c.v, o.calls \o e.calls)

\* cases.Ok and cases.Err are callbacks
match(r, cases) ==
    IF isOk(r)
    THEN LET c == Call(cases.Ok, r.value)
         IN  IF c.throws THEN Throws(c.v, c.calls)
             ELSE ReturnsValue(c.v, c.calls)
    ELSE LET c == Call(cases.Err, r.err)
         IN  IF c.throws THEN Throws(c.v, c.calls)
             ELSE ReturnsValue(c.v, c.calls)

(***************************************************************************)
(* The inputs of the client.                                               *)
(***************************************************************************)
\* what the thunk of ofThrowable does when invoked
ThunkOutcomes ==
    {Outcome(FALSE, Null, NoResult), Outcome(TRUE, Boom, NoResult)}

\* what a callback of map does
ValueOutcomes == {Outcome(FALSE, Num(1), NoResult), Outcome(TRUE, Boom, NoResult)}

\* what a callback of andThen does
ResultOutcomes ==
    {Outcome(FALSE, Undefined, r) : r \in {ok(Num(1)), err(Even)}}
        \cup {Outcome(TRUE, Boom, NoResult)}

\* what a callback of mapErr does
ErrorOutcomes == {Outcome(FALSE, Same, NoResult), Outcome(TRUE, Boom, NoResult)}

\* what the handlers of match do
OkOutcomes == {Outcome(FALSE, Num(1), NoResult), Outcome(TRUE, Boom, NoResult)}
ErrOutcomes == {Outcome(FALSE, Null, NoResult), Outcome(TRUE, Even, NoResult)}

\* what the thunk of ofPromise does: it throws, or returns a promise
PromiseOutcomes ==
    {Outcome(TRUE, Even, NoResult), Outcome(FALSE, Undefined, NoResult)}

\* the errors err() is called with
ErrArgs == {Even, Same}

\* how a promise settles: throws is a rejection
Settlements == {Outcome(FALSE, Undefined, NoResult), Outcome(TRUE, Boom, NoResult)}

Unsettled == Outcome(FALSE, Undefined, NoResult)

Fallbacks == {Str("fallback")}

\* the elements of the arrays handed to combine alone
Pool == {ok(Num(1)), ok(Null), ok(Boom), err(Boom), err(Even)}

BoundedSeq(S, n) == UNION {[1..m -> S] : m \in 0..n}

(***************************************************************************)
(* The record of one call: the operation, the Results and the plain        *)
(* argument it was given, its callbacks, the settlement of the promise it  *)
(* awaited, and how it ended.                                              *)
(***************************************************************************)
Rec(op, ins, arg, cbs, c) ==
    [op |-> op, ins |-> ins, arg |-> arg, cbs |-> cbs, settle |-> Unsettled,
     c |-> c]

Finish(op, ins, arg, cbs, c) ==
    /\ trace' = Append(trace, Rec(op, ins, arg, cbs, c))
    /\ cur' = c.res
    /\ pc' = IF c.awaiting THEN "awaiting"
             ELSE IF c.raised \/ c.res = NoResult THEN "done"
             ELSE "chain"
    /\ UNCHANGED args

\* the step of the chain the next call is
Here == Len(trace) + 1

Init ==
    /\ pc = "start"
    /\ cur = NoResult
    /\ trace = <<>>
    /\ nextId = 10
    /\ args = <<>>

(***************************************************************************)
(* Constructors.                                                           *)
(***************************************************************************)
Ok ==
    /\ pc = "start"
    /\ \E a \in Values : Finish("ok", <<>>, a, <<>>, Returns(ok(a), <<>>))
    /\ UNCHANGED nextId

Err ==
    /\ pc = "start"
    /\ \E e \in ErrArgs : Finish("err", <<>>, e, <<>>, Returns(err(e), <<>>))
    /\ UNCHANGED nextId

ResultOf ==
    /\ pc = "start"
    /\ \E v \in ResultArgs :
          Finish("result", <<>>, v, <<>>, Returns(result(v), <<>>))
    /\ UNCHANGED nextId

OfThrowable ==
    /\ pc = "start"
    /\ \E out \in ThunkOutcomes :
          LET throwable == Callback("throwable", Here, out)
          IN  Finish("ofThrowable", <<>>, Undefined, <<throwable>>,
                     ofThrowable(throwable))
    /\ UNCHANGED nextId

OfPromise ==
    /\ pc = "start"
    /\ \E out \in PromiseOutcomes :
          LET thunk == Callback("thunk", Here, out)
          IN  Finish("ofPromise", <<>>, Undefined, <<thunk>>,
                     ofPromiseEnter(thunk))
    /\ UNCHANGED nextId

\* the promise ofPromise awaits settles, and ofPromise resumes
OfPromiseSettle ==
    /\ pc = "awaiting"
    /\ \E settle \in Settlements :
          LET n == Len(trace)
              c == ofPromiseResume(settle, trace[n].c.calls)
          IN  /\ trace' = [trace EXCEPT ![n].settle = settle, ![n].c = c]
              /\ cur' = c.res
    /\ pc' = "chain"
    /\ UNCHANGED <<nextId, args>>

(***************************************************************************)
(* Combinators on the current Result.                                      *)
(***************************************************************************)
AndThen ==
    /\ pc = "chain"
    /\ Len(trace) <= MaxSteps
    /\ \E out \in ResultOutcomes :
          LET tx == Callback("tx", Here, out)
          IN  Finish("andThen", <<cur>>, Undefined, <<tx>>, andThen(cur, tx))
    /\ UNCHANGED nextId

Map ==
    /\ pc = "chain"
    /\ Len(trace) <= MaxSteps
    /\ \E out \in ValueOutcomes :
          LET tx == Callback("tx", Here, out)
          IN  Finish("map", <<cur>>, Undefined, <<tx>>, map(cur, tx))
    /\ UNCHANGED nextId

MapErr ==
    /\ pc = "chain"
    /\ Len(trace) <= MaxSteps
    /\ \E out \in ErrorOutcomes :
          LET tx == Callback("tx", Here, out)
          IN  Finish("mapErr", <<cur>>, Undefined, <<tx>>, mapErr(cur, tx))
    /\ UNCHANGED nextId

\* combine of an array that holds the current Result
Combine ==
    /\ pc = "chain"
    /\ Len(trace) <= MaxSteps
    /\ \E results \in {<<cur, err(Boom)>>, <<ok(Num(0)), cur>>} :
          Finish("combine", results, Undefined, <<>>, combine(results))
    /\ UNCHANGED nextId

(***************************************************************************)
(* The end of a chain: an extractor or a match.                            *)
(***************************************************************************)
Match ==
    /\ pc = "chain"
    /\ \E o \in OkOutcomes, e \in ErrOutcomes :
          LET cases == [Ok |-> Callback("Ok", Here, o),
                        Err |-> Callback("Err", Here, e)]
          IN  Finish("match", <<cur>>, Undefined, <<cases.Ok, cases.Err>>,
                     match(cur, cases))
    /\ UNCHANGED nextId

ValueOr ==
    /\ pc = "chain"
    /\ \E fallback \in Fallbacks :
          Finish("valueOr", <<cur>>, fallback, <<>>, valueOr(cur, fallback))
    /\ UNCHANGED nextId

ValueExn ==
    /\ pc = "chain"
    /\ Finish("valueExn", <<cur>>, Undefined, <<>>, valueExn(cur, nextId))
    /\ nextId' = IF isOk(cur) THEN nextId ELSE nextId + 1

\* combine of an array of Results, on its own
CombineArgs ==
    /\ pc = "start"
    /\ Finish("combine", args, Undefined, <<>>, combine(args))
    /\ UNCHANGED nextId

Next ==
    \/ Ok
    \/ Err
    \/ ResultOf
    \/ OfThrowable
    \/ OfPromise
    \/ OfPromiseSettle
    \/ AndThen
    \/ Map
    \/ MapErr
    \/ Combine
    \/ Match
    \/ ValueOr
    \/ ValueExn

Spec == Init /\ [][Next]_vars

\* combine as a function of its array
InitCombine ==
    /\ pc = "start"
    /\ cur = NoResult
    /\ trace = <<>>
    /\ nextId = 10
    /\ args \in BoundedSeq(Pool, MaxLen)

NextCombine == CombineArgs

SpecCombine == InitCombine /\ [][NextCombine]_vars

(***************************************************************************)
(* What the claims speak of.                                               *)
(***************************************************************************)
Recs == 1..Len(trace)

\* The latest record.  A record is appended when its call is made and only
\* the latest one is ever rewritten (when the promise of ofPromise settles),
\* so what holds of the latest record in every state holds of every record.
Latest == {i \in Recs : i = Len(trace)}

Constructors == {"ok", "err", "result", "ofThrowable", "ofPromise"}

Combinators == {"map", "mapErr", "andThen", "combine", "match"}

\* a field that holds something: neither null nor undefined
Populated(v) == ~Nullish(v)

\* the invocations, in the whole chain, of the callback passed to step k
CallsTo(k) ==
    UNION {{<<i, j>> : j \in {j \in 1..Len(trace[i].c.calls) :
                                  trace[i].c.calls[j].step = k}} : i \in Recs}

\* record i ended with a Result
Built(i) == ~trace[i].c.raised /\ ~trace[i].c.awaiting /\ trace[i].c.res # NoResult

\* the callback of record i that its invocation j names
Invoked(i, j) ==
    CHOOSE cb \in {trace[i].cbs[k] : k \in 1..Len(trace[i].cbs)} :
        cb.fn = trace[i].c.calls[j].fn

(***************************************************************************)
(* C1: in a chain of three andThen calls from Ok(x), where f1(x) is Ok(y)  *)
(* and f2(y) is Err(e), f1 is invoked exactly once, with x, f2 exactly     *)
(* once, with y, f3 is never invoked, and the chain's result is the Err    *)
(* that f2 returned, carrying e.                                           *)
(***************************************************************************)
ShortCircuitAt(i) ==
    /\ i + 2 <= Len(trace)
    /\ \A k \in i..(i + 2) : trace[k].op = "andThen"
    /\ isOk(trace[i].ins[1])
    /\ ~trace[i].cbs[1].out.throws /\ isOk(trace[i].cbs[1].out.r)
    /\ ~trace[i + 1].cbs[1].out.throws /\ isErr(trace[i + 1].cbs[1].out.r)

C1_AndThenShortCircuit ==
    \A i \in {i \in Recs : i + 2 \in Latest} :
        ShortCircuitAt(i) =>
            LET x == trace[i].ins[1].value
                y == trace[i].cbs[1].out.r.value
                e == trace[i + 1].cbs[1].out.r.err
            IN  /\ CallsTo(i) = {<<i, 1>>}
                /\ trace[i].c.calls[1].arg = x
                /\ CallsTo(i + 1) = {<<i + 1, 1>>}
                /\ trace[i + 1].c.calls[1].arg = y
                /\ CallsTo(i + 2) = {}
                /\ ~trace[i + 2].c.raised
                /\ isErr(trace[i + 2].c.res)
                /\ trace[i + 2].c.res.err = e
                /\ trace[i + 2].c.res = trace[i + 1].cbs[1].out.r

C1_Witness == \E i \in Recs : ShortCircuitAt(i) /\ pc = "chain"

(***************************************************************************)
(* C2: from a Result that is Err(e), after any sequence of map and andThen *)
(* steps the result is still that Err, carrying the identical e, no step   *)
(* has raised and no callback of the sequence has been invoked.            *)
(***************************************************************************)
ErrChainTo(n) ==
    /\ 2 <= n /\ n <= Len(trace)
    /\ Built(1) /\ isErr(trace[1].c.res)
    /\ \A j \in 2..n : trace[j].op \in {"map", "andThen"}

C2_ErrPropagates ==
    \A n \in Latest :
        ErrChainTo(n) =>
            \A j \in 2..n :
                /\ trace[j].c.calls = <<>>
                /\ ~trace[j].c.raised
                /\ isErr(trace[j].c.res)
                /\ trace[j].c.res.err = trace[1].c.res.err
                /\ trace[j].c.res = trace[1].c.res

C2_Witness ==
    /\ ErrChainTo(3)
    /\ trace[1].op = "err"
    /\ trace[2].op = "map" /\ trace[2].cbs[1].out.throws
    /\ trace[3].op = "andThen" /\ isOk(trace[3].cbs[1].out.r)

(***************************************************************************)
(* C3: combine(rs) is Ok of the values of rs, as many and in the same      *)
(* order, when every element is Ok (Ok([]) for the empty array), and       *)
(* otherwise the Err element of the lowest index, whatever follows it; no  *)
(* element after that one is examined.                                     *)
(***************************************************************************)
AllOk(rs) == \A k \in 1..Len(rs) : rs[k].status = ResultStatus.ok

FirstErr(rs) ==
    CHOOSE k \in 1..Len(rs) :
        /\ rs[k].status # ResultStatus.ok
        /\ \A j \in 1..(k - 1) : rs[j].status = ResultStatus.ok

C3_CombineReference ==
    \A i \in Latest :
        trace[i].op = "combine" =>
            LET rs == trace[i].ins
                c == trace[i].c
            IN  /\ ~c.raised
                /\ c.calls = <<>>
                /\ IF AllOk(rs)
                   THEN /\ c.res.status = ResultStatus.ok
                        /\ c.res.err = Null
                        /\ c.res.value.kind = "array"
                        /\ Len(c.res.value.items) = Len(rs)
                        /\ \A k \in 1..Len(rs) :
                              c.res.value.items[k] = rs[k].value
                        /\ c.examined = Len(rs)
                   ELSE /\ c.res = rs[FirstErr(rs)]
                        /\ c.res.status = ResultStatus.err
                        /\ c.examined = FirstErr(rs)

C3_Witness ==
    /\ Len(trace) = 1
    /\ trace[1].op = "combine"
    /\ Len(args) = 3
    /\ isOk(args[1]) /\ isErr(args[2]) /\ isErr(args[3])
    /\ args[2] # args[3]
    /\ cur = args[2]

(***************************************************************************)
(* C4: for every Result a constructor or a combinator has produced,        *)
(* isOk(r) and isErr(r) differ: exactly one of them is true.               *)
(***************************************************************************)
C4_OkXorErr ==
    \A i \in Latest :
        /\ Built(i) => isOk(trace[i].c.res) # isErr(trace[i].c.res)
        /\ \A k \in 1..Len(trace[i].ins) :
              isOk(trace[i].ins[k]) # isErr(trace[i].ins[k])

C4_Witness ==
    /\ Len(trace) = 4
    /\ trace[1].op = "result" /\ trace[1].arg = Null
    /\ trace[2].op = "mapErr"
    /\ trace[3].op = "combine"
    /\ trace[4].op = "andThen"
    /\ Built(4)

(***************************************************************************)
(* C5, as claimed: in every Result a constructor builds, from any input,   *)
(* exactly one of value and err is populated: value iff the Result is Ok,  *)
(* err iff it is Err.                                                      *)
(***************************************************************************)
C5_ExactlyOnePopulated ==
    \A i \in Latest :
        (trace[i].op \in Constructors /\ Built(i)) =>
            LET r == trace[i].c.res
            IN  /\ Populated(r.value) # Populated(r.err)
                /\ Populated(r.value) <=> isOk(r)
                /\ Populated(r.err) <=> isErr(r)

\* what a Result carries: the field of its own variant
Payload(r) == IF isOk(r) THEN r.value ELSE r.err

(***************************************************************************)
(* C5, amended: in every Result a constructor builds, the field of the     *)
(* other variant is null (err of an Ok, value of an Err), and exactly one  *)
(* of value and err is populated, the one of the Result's variant, when    *)
(* the payload is itself neither null nor undefined; for a null or         *)
(* undefined payload neither field is populated.                           *)
(***************************************************************************)
C5_OtherFieldNull ==
    \A i \in Latest :
        (trace[i].op \in Constructors /\ Built(i)) =>
            LET r == trace[i].c.res
            IN  /\ isOk(r) => r.err = Null
                /\ isErr(r) => r.value = Null
                /\ Populated(Payload(r)) =>
                      /\ Populated(r.value) # Populated(r.err)
                      /\ Populated(r.value) <=> isOk(r)
                      /\ Populated(r.err) <=> isErr(r)
                /\ Nullish(Payload(r)) =>
                      ~Populated(r.value) /\ ~Populated(r.err)

C5_Witness ==
    /\ Len(trace) = 1
    /\ trace[1].op = "result" /\ trace[1].arg = Num(0)
    /\ isErr(cur) /\ cur.err = Num(0)

(***************************************************************************)
(* C6, as claimed: no combinator raises, whatever its callbacks do.        *)
(***************************************************************************)
C6_CombinatorsNeverRaise ==
    \A i \in Latest : trace[i].op \in Combinators => ~trace[i].c.raised

(***************************************************************************)
(* C6, amended: a combinator raises exactly when a callback or handler it  *)
(* invokes raises, and then it raises what the callback raised; it         *)
(* returns normally when its callbacks return normally or are not          *)
(* invoked, and combine, which takes no callback, never raises.            *)
(***************************************************************************)
C6_RaisesOnlyFromCallback ==
    \A i \in Latest :
        trace[i].op \in Combinators =>
            LET c == trace[i].c
                thrown == {j \in 1..Len(c.calls) : Invoked(i, j).out.throws}
            IN  /\ c.raised <=> thrown # {}
                /\ c.raised => \E j \in thrown : c.exn = Invoked(i, j).out.v
                /\ trace[i].op = "combine" => ~c.raised

C6_Witness ==
    /\ Len(trace) = 3
    /\ trace[2].op = "map" /\ isErr(trace[2].ins[1])
    /\ trace[2].cbs[1].out.throws /\ ~trace[2].c.raised
    /\ trace[3].op = "mapErr" /\ trace[3].c.raised
    /\ trace[3].c.exn = Boom

(***************************************************************************)
(* C7: valueOr(ok(a), fallback) and valueExn(ok(a)) return a, for every a, *)
(* null, undefined and falsy values included; valueOr(err(e), fallback)    *)
(* returns fallback without raising; valueExn(err(e)) raises an error of   *)
(* the access-error kind whose message is the fixed text, and what it      *)
(* raises is neither e nor e's message: it is a new object, the same       *)
(* whatever e is.                                                          *)
(***************************************************************************)
\* the identities of the client's objects
ClientIds == {e.n : e \in Errors}

C7_Extractors ==
    \A i \in Latest :
        LET r == trace[i].ins[1]
            c == trace[i].c
        IN  /\ (trace[i].op \in {"valueOr", "valueExn"} /\ isOk(r)) =>
                  ~c.raised /\ c.val = r.value
            /\ (trace[i].op = "valueOr" /\ isErr(r)) =>
                  ~c.raised /\ c.val = trace[i].arg
            /\ (trace[i].op = "valueExn" /\ isErr(r)) =>
                  /\ c.raised
                  /\ c.exn.kind = "ResultAccessErr"
                  /\ c.exn.s = AccessMsg
                  /\ c.exn # r.err
                  /\ c.exn # Str(r.err.s)
                  /\ c.exn.n \notin ClientIds

C7_Witness ==
    /\ Len(trace) = 2
    /\ trace[1].op = "err" /\ trace[1].arg = Even
    /\ trace[2].op = "valueExn"
    /\ trace[2].c.raised
    /\ pc = "done"

(***************************************************************************)
(* C8: ofThrowable and ofPromise invoke their thunk exactly once and never *)
(* raise; the outcome is Ok(v) when the thunk returns v (its promise is    *)
(* fulfilled with v), and Err carrying e when the thunk raises e (its      *)
(* promise is rejected with e, or the thunk of ofPromise raises e before   *)
(* it returns a promise).                                                  *)
(***************************************************************************)
IsOkOf(r, v) == r.status = ResultStatus.ok /\ r.value = v /\ r.err = Null

IsErrOf(r, e) == r.status = ResultStatus.err /\ r.err = e /\ r.value = Null

C8_ThunkCapture ==
    \A i \in Latest :
        trace[i].op \in {"ofThrowable", "ofPromise"} =>
            LET c == trace[i].c
                thunk == trace[i].cbs[1]
            IN  /\ Len(c.calls) = 1
                /\ c.calls[1].fn = thunk.fn
                /\ ~c.raised
                /\ thunk.out.throws => ~c.awaiting /\ IsErrOf(c.res, thunk.out.v)
                /\ (trace[i].op = "ofThrowable" /\ ~thunk.out.throws) =>
                      IsOkOf(c.res, thunk.out.v)
                /\ (trace[i].op = "ofPromise" /\ ~thunk.out.throws
                        /\ ~c.awaiting) =>
                      IF trace[i].settle.throws
                      THEN IsErrOf(c.res, trace[i].settle.v)
                      ELSE IsOkOf(c.res, trace[i].settle.v)

C8_Witness ==
    /\ Len(trace) = 1
    /\ trace[1].op = "ofPromise"
    /\ ~trace[1].cbs[1].out.throws
    /\ trace[1].settle.throws
    /\ pc = "chain" /\ cur = err(Boom)

(***************************************************************************)
(* C9: match invokes exactly one handler exactly once, the Ok handler with *)
(* the value iff the Result is Ok, the Err handler with the error iff it   *)
(* is Err, and returns what that handler returned.                         *)
(***************************************************************************)
C9_MatchOneHandler ==
    \A i \in Latest :
        trace[i].op = "match" =>
            LET r == trace[i].ins[1]
                c == trace[i].c
            IN  /\ Len(c.calls) = 1
                /\ isOk(r) => c.calls[1].fn = "Ok" /\ c.calls[1].arg = r.value
                /\ isErr(r) => c.calls[1].fn = "Err" /\ c.calls[1].arg = r.err
                /\ c.calls[1].fn = "Ok" <=> isOk(r)
                /\ c.calls[1].fn = "Err" <=> isErr(r)
                /\ ~Invoked(i, 1).out.throws =>
                      ~c.raised /\ c.val = Invoked(i, 1).out.v

C9_Witness ==
    /\ Len(trace) = 2
    /\ trace[2].op = "match"
    /\ isErr(trace[2].ins[1])
    /\ trace[2].cbs[1].out.throws
    /\ ~trace[2].c.raised /\ trace[2].c.val = Null

(***************************************************************************)
(* C10: map(ok(a), f) is Ok(f(a)) with f invoked exactly once, with a;     *)
(* mapErr(err(e), g) is Err(g(e)) with g invoked exactly once, with e;     *)
(* mapErr(ok(a), g) is Ok(a) with g never invoked.                         *)
(***************************************************************************)
C10_MapOneChannel ==
    \A i \in Latest :
        LET r == trace[i].ins[1]
            c == trace[i].c
            f == trace[i].cbs[1]
            once == Len(c.calls) = 1 /\ c.calls[1].fn = "tx"
        IN  /\ (trace[i].op = "map" /\ isOk(r)) =>
                  /\ once /\ c.calls[1].arg = r.value
                  /\ ~f.out.throws => ~c.raised /\ IsOkOf(c.res, f.out.v)
            /\ (trace[i].op = "mapErr" /\ isErr(r)) =>
                  /\ once /\ c.calls[1].arg = r.err
                  /\ ~f.out.throws => ~c.raised /\ IsErrOf(c.res, f.out.v)
            /\ (trace[i].op = "mapErr" /\ isOk(r)) =>
                  /\ c.calls = <<>>
                  /\ ~c.raised /\ c.res = r
                  /\ IsOkOf(c.res, r.value)

C10_Witness ==
    /\ Len(trace) = 3
    /\ trace[2].op = "map" /\ isOk(trace[2].ins[1]) /\ Built(2)
    /\ trace[3].op = "mapErr" /\ isOk(trace[3].ins[1]) /\ Built(3)

(***************************************************************************)
(* C11: result(v), and result() where v is undefined, is Ok carrying v     *)
(* exactly when v is truthy and no error instance; for null, undefined,    *)
(* 0, NaN, the empty string, false and every error instance it is Err      *)
(* carrying v itself in the error slot.                                    *)
(***************************************************************************)
\* the falsy values of JavaScript among the inputs
Falsy == {Undefined, Null, False, Num(0), NaN, Str("")}

C11_ResultHeuristic ==
    \A i \in Latest :
        trace[i].op = "result" =>
            LET v == trace[i].arg
                r == trace[i].c.res
            IN  /\ ~trace[i].c.raised
                /\ trace[i].c.calls = <<>>
                /\ IsOkOf(r, v) <=> (v \notin Falsy /\ v \notin Errors)
                /\ IsErrOf(r, v) <=> (v \in Falsy \/ v \in Errors)

C11_Witness ==
    /\ Len(trace) = 1
    /\ trace[1].op = "result" /\ trace[1].arg = Boom
    /\ pc = "chain"
    /\ isErr(cur) /\ cur.err = Boom /\ cur.value = Null

====
